---- MODULE Spec2Model ----
(***************************************************************************)
(* Model of class Connection (src/src/index.ts): a WebSocket client that   *)
(* owns one socket, one pending connect promise and one reconnect timer.   *)
(*                                                                         *)
(* The private fields keep their names without the leading underscore.     *)
(* The WebSocket ("ws"), the Subject topics and the options object are     *)
(* collaborators: a socket is an opaque object that, while the listeners   *)
(* of the Connection are attached to it, may deliver open, message, close  *)
(* or error; open at most once and only before anything else.  JavaScript  *)
(* runs each public call, each listener and each timer callback to         *)
(* completion, so each of them is one atomic action.                       *)
(*                                                                         *)
(* Every helper is a function from a state record to a state record, so    *)
(* that a handler is the composition of the calls the code makes.          *)
(***************************************************************************)
EXTENDS Integers, Sequences, FiniteSets

\* ---------------------------------------------------------------- bounds
\* How many times in one run a socket is given up: the close/error
\* notifications the sockets deliver plus the disconnect()/destroy() calls
\* the caller makes.
MaxEvents == 2
\* The positive reconnect delay tried by the constructor (milliseconds).
ReconnectMs == 1
\* The most fragments of one inbound message.
MaxFragments == 2

\* A socket is created only when none is held, and a held socket is released
\* only by a close/error notification or by disconnect()/destroy().
MaxSockets == 1 + MaxEvents
SocketIds == 1..MaxSockets
PromiseIds == 1..MaxSockets

\* options.reconnect as given to the constructor; <= 0 disables reconnecting.
ReconnectOptions == {-1, 0, ReconnectMs}
\* typeof / instanceof of event.data in the message listener.
PayloadKinds == {"string", "Buffer", "ArrayBuffer", "Array"}

\* event.data: a string, one binary chunk, or an array of binary chunks.
Bytes == {0, 1}
Chunks == {<<b>> : b \in Bytes}
Fragments == UNION {[1..n -> Chunks] : n \in 0..MaxFragments}
Payloads ==
    {[kind |-> "string", data |-> <<>>]}
        \cup {[kind |-> k, data |-> c] : k \in {"Buffer", "ArrayBuffer"}, c \in Chunks}
        \cup {[kind |-> "Array", data |-> f] : f \in Fragments}

\* Buffer.concat(list)
RECURSIVE concat(_)
concat(list) ==
    IF list = <<>> THEN <<>> ELSE Head(list) \o concat(Tail(list))

VARIABLES
    socket,            \* _socket: 0 is undefined, else an index of sockets
    connected,         \* _connected
    pending,           \* _pending: 0 is undefined, else an index of promises
    timeout,           \* _timeout: TRUE while the timer it names is armed
    timers,            \* how many setTimeout timers are armed
    reconnect,         \* _options.reconnect
    configured,        \* options.reconnect as the constructor received it
    sockets,           \* every WebSocket created so far, oldest first
    promises,          \* every promise returned by an accepted connect()
    subjectsDestroyed, \* the four Subjects were destroy()ed
    fault,             \* _open threw
    emits,             \* topics emitted by the last step, in order
    result,            \* what the last public call returned
    wrote,             \* the socket the last step wrote to, or 0
    op,                \* the last step
    from,              \* the socket whose notification the last step handled
    inbound,           \* event.data of the last message notification
    drops,             \* close/error notifications delivered so far
    teardowns,         \* disconnect()/destroy() calls so far
    disconnectCalled,  \* disconnect() has been called
    destroyCalled      \* destroy() has been called

vars == <<socket, connected, pending, timeout, timers, reconnect, configured,
          sockets, promises, subjectsDestroyed, fault, emits, result, wrote,
          op, from, inbound, drops, teardowns, disconnectCalled, destroyCalled>>

\* The state the helpers work on.
Cur ==
    [socket |-> socket, connected |-> connected, pending |-> pending,
     timeout |-> timeout, timers |-> timers, reconnect |-> reconnect,
     sockets |-> sockets,
     promises |-> promises, subjectsDestroyed |-> subjectsDestroyed,
     fault |-> fault, emits |-> emits, result |-> result, wrote |-> wrote]

\* A step starts with nothing emitted, returned or written.
Begin == [Cur EXCEPT !.emits = <<>>, !.result = "none", !.wrote = 0]

Commit(s) ==
    /\ socket' = s.socket
    /\ connected' = s.connected
    /\ pending' = s.pending
    /\ timeout' = s.timeout
    /\ timers' = s.timers
    /\ reconnect' = s.reconnect
    /\ UNCHANGED configured
    /\ sockets' = s.sockets
    /\ promises' = s.promises
    /\ subjectsDestroyed' = s.subjectsDestroyed
    /\ fault' = s.fault
    /\ emits' = s.emits
    /\ result' = s.result
    /\ wrote' = s.wrote

\* ---------------------------------------------------------------- objects
\* new WebSocket(address) with the four listeners added.
\* opened records that the socket has delivered its open notification,
\* routines how many of its close/error notifications ran a listener (and so
\* the close/reconnect routine).
NewSocket(by) ==
    [state |-> "connecting", listening |-> TRUE, by |-> by, opened |-> FALSE,
     routines |-> 0]

\* The resolver/rejector pair of a new Promise: how often each was called,
\* the socket its connect() opened, the socket whose notification settled
\* it, and whether destroy() dropped it unsettled.
NewPromise == [resolver |-> 0, rejector |-> 0, own |-> 0, by |-> 0, cleared |-> FALSE]

Settled(p) == p.resolver + p.rejector > 0

\* Subject.emit
emit(s, topic, value) ==
    [s EXCEPT !.emits = Append(@, [topic |-> topic, value |-> value])]

\* No message was handled by the step.
NoPayload == [kind |-> "none", data |-> <<>>]

\* clearTimeout(this._timeout): cancels the timer _timeout names, if armed.
clearTimeout(s) ==
    IF s.timeout
    THEN [s EXCEPT !.timeout = FALSE, !.timers = @ - 1]
    ELSE s

\* this._timeout = setTimeout(...): arms a new timer and names it.
setTimeout(s) == [s EXCEPT !.timeout = TRUE, !.timers = @ + 1]

\* ---------------------------------------------------------------- private methods
_open(s, by) ==
    IF s.socket # 0
    THEN [s EXCEPT !.fault = TRUE]
    ELSE [s EXCEPT !.sockets = Append(@, NewSocket(by)),
                   !.socket = Len(s.sockets) + 1]

\* _reconnect() that opens the socket at once instead of after the delay.
_reconnect_opensAtOnce(s) ==
    IF s.reconnect <= 0
    THEN s
    ELSE _open(clearTimeout(s), "timer")

\* _reconnect() that tests `< 0` instead of `<= 0`.
_reconnect_strictTest(s) ==
    IF s.reconnect < 0
    THEN s
    ELSE setTimeout(clearTimeout(s))

_reconnect(s) ==
    IF s.reconnect <= 0
    THEN s
    ELSE setTimeout(clearTimeout(s))

\* _drop() that only clears the timer.
_drop_keepsDelay(s) == clearTimeout(s)

_drop(s) == clearTimeout([s EXCEPT !.reconnect = -1])

\* _close() that leaves the four listeners on the socket it drops.
_close_keepsListeners(s) ==
    _reconnect(
        IF s.socket # 0
        THEN [s EXCEPT !.sockets[s.socket].state = "closed", !.socket = 0]
        ELSE s)

\* _close() without the test of _socket: removeEventListener of undefined throws.
_close_unguarded(s) ==
    IF s.socket # 0
    THEN _reconnect([s EXCEPT !.sockets[s.socket] = [@ EXCEPT !.listening = FALSE,
                                                              !.state = "closed"],
                              !.socket = 0])
    ELSE [s EXCEPT !.fault = TRUE]

_close(s) ==
    _reconnect(
        IF s.socket # 0
        THEN [s EXCEPT !.sockets[s.socket] = [@ EXCEPT !.listening = FALSE,
                                                       !.state = "closed"],
                       !.socket = 0]
        ELSE s)

\* ---------------------------------------------------------------- public methods
\* send() that tests only _socket.
send_onlySocketTest(s) ==
    IF s.socket = 0
    THEN [s EXCEPT !.result = "Client isn't connected"]
    ELSE [s EXCEPT !.wrote = s.socket, !.result = "undefined"]

send(s) ==
    IF ~s.connected \/ s.socket = 0
    THEN [s EXCEPT !.result = "Client isn't connected"]
    ELSE [s EXCEPT !.wrote = s.socket, !.result = "undefined"]

\* connect() without the test of _pending.
connect_noPendingTest(s) ==
    LET s1 == clearTimeout(s)
    IN  IF s1.connected \/ s1.socket # 0
        THEN [s1 EXCEPT !.result = "Already connected"]
        ELSE LET s2 == [s1 EXCEPT !.promises = Append(@, NewPromise),
                                  !.pending = Len(s1.promises) + 1]
                 s3 == _open(s2, "connect")
             IN  [s3 EXCEPT !.promises[s2.pending].own = s3.socket,
                            !.result = "promise"]

\* connect() without the test of _connected and _socket.
connect_noConnectedTest(s) ==
    LET s1 == clearTimeout(s)
    IN  IF s1.pending # 0
        THEN [s1 EXCEPT !.result = "Connection is already requested"]
        ELSE LET s2 == [s1 EXCEPT !.promises = Append(@, NewPromise),
                                  !.pending = Len(s1.promises) + 1]
                 s3 == _open(s2, "connect")
             IN  IF s3.fault
                 THEN [s3 EXCEPT !.promises[s2.pending].rejector = @ + 1,
                                 !.result = "promise"]
                 ELSE [s3 EXCEPT !.promises[s2.pending].own = s3.socket,
                                 !.result = "promise"]

\* connect() without the clearTimeout at its top.
connect_noClearTimeout(s) ==
    IF s.pending # 0
    THEN [s EXCEPT !.result = "Connection is already requested"]
    ELSE IF s.connected \/ s.socket # 0
    THEN [s EXCEPT !.result = "Already connected"]
    ELSE LET s2 == [s EXCEPT !.promises = Append(@, NewPromise),
                             !.pending = Len(s.promises) + 1]
             s3 == _open(s2, "connect")
         IN  [s3 EXCEPT !.promises[s2.pending].own = s3.socket,
                        !.result = "promise"]

connect(s) ==
    LET s1 == clearTimeout(s)
    IN  IF s1.pending # 0
        THEN [s1 EXCEPT !.result = "Connection is already requested"]
        ELSE IF s1.connected \/ s1.socket # 0
        THEN [s1 EXCEPT !.result = "Already connected"]
        ELSE LET s2 == [s1 EXCEPT !.promises = Append(@, NewPromise),
                                  !.pending = Len(s1.promises) + 1]
                 s3 == _open(s2, "connect")
             IN  IF s3.fault
                 THEN [s3 EXCEPT !.promises[s2.pending].rejector = @ + 1,
                                 !.result = "promise"]
                 ELSE [s3 EXCEPT !.promises[s2.pending].own = s3.socket,
                                 !.result = "promise"]

disconnect(s) == [_close(_drop(s)) EXCEPT !.result = "resolved"]

\* destroy() that rejects the PendingConnect before dropping it.
destroy_rejectsPending(s) ==
    LET s1 == _close(_drop(s))
        s2 == IF s1.pending # 0
              THEN [s1 EXCEPT !.promises[s1.pending].rejector = @ + 1,
                              !.promises[s1.pending].cleared = TRUE,
                              !.pending = 0]
              ELSE s1
    IN  [s2 EXCEPT !.subjectsDestroyed = TRUE, !.result = "resolved"]

destroy(s) ==
    LET s1 == _close(_drop(s))
        s2 == IF s1.pending # 0
              THEN [s1 EXCEPT !.promises[s1.pending].cleared = TRUE, !.pending = 0]
              ELSE s1
    IN  [s2 EXCEPT !.subjectsDestroyed = TRUE, !.result = "resolved"]

\* ---------------------------------------------------------------- listeners
\* t is the socket that delivers the notification.
\* The open listener without `this._pending = undefined`.
events_open_keepsPending(s, t) ==
    LET s1 == [s EXCEPT !.connected = TRUE]
        s2 == IF s1.pending # 0
              THEN [s1 EXCEPT !.promises[s1.pending].resolver = @ + 1,
                              !.promises[s1.pending].by = t]
              ELSE s1
    IN  emit(s2, "connected", "void")

events_open(s, t) ==
    LET s1 == [s EXCEPT !.connected = TRUE]
        s2 == IF s1.pending # 0
              THEN [s1 EXCEPT !.promises[s1.pending].resolver = @ + 1,
                              !.promises[s1.pending].by = t,
                              !.pending = 0]
              ELSE s1
    IN  emit(s2, "connected", "void")

events_close(s, t) ==
    LET s1 == [s EXCEPT !.connected = FALSE]
    IN  emit(_close(s1), "disconnected", "void")

\* The message listener that emits every fragment of an array on its own.
RECURSIVE emitEach(_, _)
emitEach(s, list) ==
    IF list = <<>> THEN s ELSE emitEach(emit(s, "data", Head(list)), Tail(list))

events_message_noConcat(s, t, data) ==
    IF data.kind = "string"
    THEN emit(s, "error", "Expecting only binary data")
    ELSE IF data.kind \in {"Buffer", "ArrayBuffer"}
    THEN emit(s, "data", data.data)
    ELSE emitEach(s, data.data)

events_message(s, t, data) ==
    IF data.kind = "string"
    THEN emit(s, "error", "Expecting only binary data")
    ELSE IF data.kind \in {"Buffer", "ArrayBuffer"}
    THEN emit(s, "data", data.data)
    ELSE IF data.kind = "Array"
    THEN emit(s, "data", concat(data.data))
    ELSE s

\* The error listener without the call of _pending.rejector.
events_error_noReject(s, t) ==
    LET s1 == [s EXCEPT !.connected = FALSE]
        s2 == IF s1.pending # 0 THEN [s1 EXCEPT !.pending = 0] ELSE s1
    IN  _close(emit(s2, "error", "Connection error"))

\* The error listener that drops the socket without evaluating the reconnect.
events_error_noReconnect(s, t) ==
    LET s1 == [s EXCEPT !.connected = FALSE]
        s2 == IF s1.pending # 0
              THEN [s1 EXCEPT !.promises[s1.pending].rejector = @ + 1,
                              !.promises[s1.pending].by = t,
                              !.pending = 0]
              ELSE s1
        s3 == emit(s2, "error", "Connection error")
    IN  IF s3.socket # 0
        THEN [s3 EXCEPT !.sockets[s3.socket] = [@ EXCEPT !.listening = FALSE,
                                                         !.state = "closed"],
                        !.socket = 0]
        ELSE s3

events_error(s, t) ==
    LET s1 == [s EXCEPT !.connected = FALSE]
        s2 == IF s1.pending # 0
              THEN [s1 EXCEPT !.promises[s1.pending].rejector = @ + 1,
                              !.promises[s1.pending].by = t,
                              !.pending = 0]
              ELSE s1
    IN  _close(emit(s2, "error", "Connection error"))

\* ---------------------------------------------------------------- constructor
Fresh(r) ==
    [socket |-> 0, connected |-> FALSE, pending |-> 0, timeout |-> FALSE,
     timers |-> 0, reconnect |-> r, sockets |-> <<>>, promises |-> <<>>,
     subjectsDestroyed |-> FALSE, fault |-> FALSE, emits |-> <<>>,
     result |-> "none", wrote |-> 0]

Connection(autoconnect, r) ==
    IF autoconnect THEN connect(Fresh(r)) ELSE Fresh(r)

Init ==
    \E autoconnect \in BOOLEAN, r \in ReconnectOptions :
        LET s == Connection(autoconnect, r)
        IN  /\ socket = s.socket
            /\ connected = s.connected
            /\ pending = s.pending
            /\ timeout = s.timeout
            /\ timers = s.timers
            /\ reconnect = s.reconnect
            /\ configured = r
            /\ sockets = s.sockets
            /\ promises = s.promises
            /\ subjectsDestroyed = s.subjectsDestroyed
            /\ fault = s.fault
            /\ emits = s.emits
            /\ result = s.result
            /\ wrote = s.wrote
            /\ op = "new"
            /\ from = 0
            /\ inbound = NoPayload
            /\ drops = 0
            /\ teardowns = 0
            /\ disconnectCalled = FALSE
            /\ destroyCalled = FALSE

\* ---------------------------------------------------------------- actions
\* The sockets the Connection is listening to.
Listening == {t \in DOMAIN sockets : sockets[t].listening}

Call(name) ==
    /\ op' = name
    /\ from' = 0
    /\ inbound' = NoPayload
    /\ UNCHANGED drops

Connect ==
    /\ Commit(connect(Begin))
    /\ Call("connect")
    /\ UNCHANGED <<teardowns, disconnectCalled, destroyCalled>>

Send ==
    /\ Commit(send(Begin))
    /\ Call("send")
    /\ UNCHANGED <<teardowns, disconnectCalled, destroyCalled>>

Disconnect ==
    /\ drops + teardowns < MaxEvents
    /\ Commit(disconnect(Begin))
    /\ Call("disconnect")
    /\ teardowns' = teardowns + 1
    /\ disconnectCalled' = TRUE
    /\ UNCHANGED destroyCalled

Destroy ==
    /\ drops + teardowns < MaxEvents
    /\ Commit(destroy(Begin))
    /\ Call("destroy")
    /\ teardowns' = teardowns + 1
    /\ destroyCalled' = TRUE
    /\ UNCHANGED disconnectCalled

\* The socket reports that it is open.
OnOpen ==
    \E t \in Listening :
        /\ sockets[t].state = "connecting"
        /\ Commit(events_open([Begin EXCEPT !.sockets[t].state = "open",
                                            !.sockets[t].opened = TRUE], t))
        /\ op' = "open"
        /\ from' = t
        /\ inbound' = NoPayload
        /\ UNCHANGED <<drops, teardowns, disconnectCalled, destroyCalled>>

\* The socket reports an inbound message.
OnMessage ==
    \E t \in Listening, data \in Payloads :
        /\ sockets[t].state = "open"
        /\ Commit(events_message(Begin, t, data))
        /\ op' = "message"
        /\ from' = t
        /\ inbound' = data
        /\ UNCHANGED <<drops, teardowns, disconnectCalled, destroyCalled>>

\* The socket reports that it closed, before or after it opened.
OnClose ==
    \E t \in Listening :
        /\ drops + teardowns < MaxEvents
        /\ Commit(events_close([Begin EXCEPT !.sockets[t].routines = @ + 1], t))
        /\ op' = "close"
        /\ from' = t
        /\ inbound' = NoPayload
        /\ drops' = drops + 1
        /\ UNCHANGED <<teardowns, disconnectCalled, destroyCalled>>

\* The socket reports an error, before or after it opened.
OnError ==
    \E t \in Listening :
        /\ drops + teardowns < MaxEvents
        /\ Commit(events_error([Begin EXCEPT !.sockets[t].routines = @ + 1], t))
        /\ op' = "error"
        /\ from' = t
        /\ inbound' = NoPayload
        /\ drops' = drops + 1
        /\ UNCHANGED <<teardowns, disconnectCalled, destroyCalled>>

\* An armed timer expires and the setTimeout callback of _reconnect runs:
\* the timer that _timeout names, or one whose handle was overwritten.
TimerFire ==
    \E named \in BOOLEAN :
        /\ IF named THEN timeout ELSE timers > (IF timeout THEN 1 ELSE 0)
        /\ Commit(_open([Begin EXCEPT !.timers = @ - 1,
                                      !.timeout = IF named THEN FALSE ELSE @],
                        "timer"))
        /\ op' = "timer"
        /\ from' = 0
        /\ inbound' = NoPayload
        /\ UNCHANGED <<drops, teardowns, disconnectCalled, destroyCalled>>

\* A socket whose listeners were removed delivers a notification: no
\* listener of the Connection runs.
Stale ==
    \E t \in DOMAIN sockets \ Listening :
        /\ Commit(Begin)
        /\ op' = "stale"
        /\ from' = t
        /\ inbound' = NoPayload
        /\ UNCHANGED <<drops, teardowns, disconnectCalled, destroyCalled>>

Next ==
    \/ Connect
    \/ Send
    \/ Disconnect
    \/ Destroy
    \/ OnOpen
    \/ OnMessage
    \/ OnClose
    \/ OnError
    \/ TimerFire
    \/ Stale

Spec == Init /\ [][Next]_vars

\* A socket that is listened to delivers a notification sooner or later, and
\* an armed timer that is not cleared fires.
Notify == OnOpen \/ OnMessage \/ OnClose \/ OnError

FairSpec == Spec /\ WF_vars(Notify) /\ WF_vars(TimerFire)

\* ---------------------------------------------------------------- properties
Rejections == {"Connection is already requested", "Already connected"}

\* The promises that are neither settled nor dropped by destroy().
LivePromises ==
    {p \in DOMAIN promises : ~Settled(promises[p]) /\ ~promises[p].cleared}

\* C1: at most one PendingConnect exists at a time (every unsettled promise
\* is the one held in _pending), and a connect() issued while a
\* PendingConnect exists is rejected with 'Connection is already requested',
\* creates no socket and leaves the PendingConnect in place.
C1_SinglePending ==
    /\ [](Cardinality(LivePromises) <= 1 /\ LivePromises \subseteq {pending})
    /\ [][(op' = "connect" /\ pending # 0) =>
            /\ result' = "Connection is already requested"
            /\ pending' = pending
            /\ promises' = promises
            /\ sockets' = sockets
            /\ socket' = socket]_vars

C1_Witness ==
    /\ op = "connect"
    /\ result = "Connection is already requested"
    /\ pending # 0
    /\ LivePromises = {pending}

\* C2: the promise of an accepted connect() is settled at most once: its
\* resolver and its rejector are called at most once between them.
C2_SettledAtMostOnce ==
    \A p \in DOMAIN promises : promises[p].resolver + promises[p].rejector <= 1

\* The socket that resolved a promise reports an error afterwards.
C2_Witness ==
    \E p \in DOMAIN promises :
        /\ promises[p].resolver = 1
        /\ op = "error"
        /\ from = promises[p].by

\* C3: every PendingConnect created by an accepted connect() is settled
\* sooner or later unless destroy() is called, given that sockets deliver
\* their notifications and timers fire.
C3_EveryPendingSettles ==
    \A p \in PromiseIds :
        (p \in DOMAIN promises /\ ~Settled(promises[p]))
            ~> (destroyCalled \/ (p \in DOMAIN promises /\ Settled(promises[p])))

\* C4: a PendingConnect is settled only by a notification of the socket that
\* its own connect() call opened.
C4_SettledByOwnSocket ==
    \A p \in DOMAIN promises :
        Settled(promises[p]) => promises[p].by = promises[p].own

\* C5: connect() while Connected (socket open, no PendingConnect) is rejected
\* with 'Already connected', creates no PendingConnect and leaves the socket
\* and the connected flag as they are.
C5_AlreadyConnected ==
    [][(/\ op' = "connect"
        /\ connected
        /\ pending = 0
        /\ socket # 0
        /\ sockets[socket].state = "open") =>
            /\ result' = "Already connected"
            /\ pending' = 0
            /\ promises' = promises
            /\ socket' = socket
            /\ sockets' = sockets
            /\ connected' = connected]_vars

C5_Witness ==
    /\ op = "connect"
    /\ result = "Already connected"
    /\ connected
    /\ pending = 0
    /\ socket # 0
    /\ sockets[socket].state = "open"

\* C6: a rejected connect() changes no controller state: socket, connected
\* flag, PendingConnect and the armed state of the timer stay as they were.
C6_RejectedConnectChangesNothing ==
    [][(op' = "connect" /\ result' \in Rejections) =>
            /\ socket' = socket
            /\ connected' = connected
            /\ pending' = pending
            /\ timeout' = timeout
            /\ reconnect' = reconnect]_vars

\* C7: connect() on an Idle controller (no socket, no PendingConnect) that
\* was not destroyed is accepted: it creates a PendingConnect and opens a
\* socket.
C7_IdleConnectAccepted ==
    [][(op' = "connect" /\ socket = 0 /\ pending = 0 /\ ~destroyCalled) =>
            /\ result' = "promise"
            /\ pending' # 0
            /\ socket' # 0]_vars

\* C8: disconnect() on a controller that was not destroyed leaves it Idle:
\* no socket, no PendingConnect, no armed timer; its promise resolves.
C8_DisconnectLeavesIdle ==
    (op = "disconnect" /\ ~destroyCalled) =>
        /\ socket = 0
        /\ pending = 0
        /\ ~timeout
        /\ result = "resolved"

\* C9: once disconnect() has been called the reconnect timer is never armed
\* and no timer callback ever runs (so no socket is opened by one).
C9_NoReconnectAfterDisconnect ==
    disconnectCalled =>
        /\ ~timeout
        /\ op # "timer"
        /\ reconnect <= 0

\* Reconnecting was configured; after disconnect() a socket opened by a
\* later connect() opened and then closed.
C9_Witness ==
    /\ configured > 0
    /\ disconnectCalled
    /\ ~destroyCalled
    /\ op = "close"
    /\ sockets[from].by = "connect"
    /\ sockets[from].opened

\* C10: send() returns the 'not connected' error and writes nothing whenever
\* no open socket is held; otherwise it writes once to the held socket, which
\* has delivered its open notification, and returns no error.  It changes
\* nothing else.
C10_Send ==
    [][op' = "send" =>
        /\ IF socket # 0 /\ sockets[socket].state = "open"
           THEN /\ result' = "undefined"
                /\ wrote' = socket
                /\ sockets[socket].opened
           ELSE /\ result' = "Client isn't connected"
                /\ wrote' = 0
        /\ UNCHANGED <<socket, connected, pending, timeout, reconnect,
                       sockets, promises>>]_vars

C10_Witness ==
    /\ op = "send"
    /\ socket # 0
    /\ wrote = socket
    /\ result = "undefined"

\* send() after disconnect() on a Connected controller: _connected is still
\* set, no socket is held.
C10_WitnessAfterDisconnect ==
    /\ op = "send"
    /\ connected
    /\ socket = 0
    /\ result = "Client isn't connected"

\* The fields of the Connection and the objects they refer to.
ctrl == <<socket, connected, pending, timeout, timers, reconnect, sockets, promises>>

\* The topics emitted by the last step, in order.
Topics == [i \in DOMAIN emits |-> emits[i].topic]

\* C11: Destroyed is terminal: once destroy() has been called no step creates
\* a socket, creates a PendingConnect or arms the reconnect timer.
C11_DestroyedIsTerminal ==
    [][destroyCalled =>
        /\ Len(sockets') = Len(sockets)
        /\ Len(promises') = Len(promises)
        /\ pending' = 0
        /\ socket' = 0
        /\ timers' = 0]_vars

\* C12: a PendingConnect that exists when destroy() is called is abandoned:
\* neither its resolver nor its rejector is ever called, by destroy() or by
\* anything after it.
C12_AbandonedNeverSettled ==
    \A p \in DOMAIN promises :
        promises[p].cleared =>
            /\ promises[p].resolver = 0
            /\ promises[p].rejector = 0
            /\ pending # p

\* The socket of an abandoned PendingConnect delivers a notification later.
C12_Witness ==
    \E p \in DOMAIN promises :
        /\ promises[p].cleared
        /\ op = "stale"
        /\ from = promises[p].own

\* C13: destroy() is idempotent: a destroy() that follows a destroy() leaves
\* the controller state as it was, emits nothing and does not fault.
C13_DestroyIdempotent ==
    [][(op = "destroy" /\ op' = "destroy") =>
        /\ UNCHANGED ctrl
        /\ subjectsDestroyed' = subjectsDestroyed
        /\ emits' = <<>>
        /\ result' = "resolved"
        /\ ~fault']_vars

\* destroy() was called twice on a controller that was Connecting; no
\* disconnect() was called and no other socket was ever opened.
C13_Witness ==
    /\ op = "destroy"
    /\ teardowns = 2
    /\ ~disconnectCalled
    /\ drops = 0
    /\ Len(sockets) = 1
    /\ ~sockets[1].opened
    /\ promises[1].cleared

\* Socket t, which had opened, has just reported close while reconnecting is
\* enabled.
ClosedAfterOpen(t) ==
    /\ t \in DOMAIN sockets
    /\ op = "close"
    /\ from = t
    /\ sockets[t].opened
    /\ reconnect > 0

\* C14: after a successful connect and an unsolicited close with a reconnect
\* delay > 0 the timer is armed and no socket is held; while a timer is armed
\* a socket is opened only by the timer callback or by an explicit connect();
\* and a new socket is opened sooner or later unless disconnect() or
\* destroy() is called.
C14_ReconnectAfterClose ==
    /\ [](\A t \in DOMAIN sockets :
            ClosedAfterOpen(t) =>
                /\ timeout
                /\ timers = 1
                /\ socket = 0
                /\ Len(sockets) = t)
    /\ [][(timers > 0 /\ Len(sockets') > Len(sockets)) =>
            op' \in {"timer", "connect"}]_vars
    /\ (\E t \in DOMAIN sockets : ClosedAfterOpen(t))
            ~> (socket # 0 \/ disconnectCalled \/ destroyCalled)

\* The timer armed by the close of an opened socket has fired and opened the
\* next socket.
C14_Witness ==
    /\ op = "timer"
    /\ socket > 1
    /\ sockets[socket].by = "timer"
    /\ sockets[socket - 1].opened
    /\ sockets[socket - 1].routines = 1
    /\ ~disconnectCalled
    /\ ~destroyCalled

\* The length of the first n chunks of list together.
RECURSIVE TotalLen(_, _)
TotalLen(list, n) == IF n = 0 THEN 0 ELSE TotalLen(list, n - 1) + Len(list[n])

\* v holds the bytes of the chunks of list, chunk after chunk.
IsConcatenation(v, list) ==
    /\ Len(v) = TotalLen(list, Len(list))
    /\ \A i \in DOMAIN list : \A j \in DOMAIN list[i] :
            v[TotalLen(list, i - 1) + j] = list[i][j]

\* C15: a text message yields exactly one `error` emission and no `data`
\* emission; a binary message yields exactly one `data` emission carrying its
\* bytes, an array of buffers one `data` emission carrying their
\* concatenation in order; none of them changes the connection state.
C15_Message ==
    [][op' = "message" =>
        /\ UNCHANGED ctrl
        /\ Len(emits') = 1
        /\ IF inbound'.kind = "string"
           THEN emits'[1].topic = "error"
           ELSE /\ emits'[1].topic = "data"
                /\ IF inbound'.kind = "Array"
                   THEN IsConcatenation(emits'[1].value, inbound'.data)
                   ELSE emits'[1].value = inbound'.data]_vars

\* An array of two different buffers was received.
C15_Witness ==
    /\ op = "message"
    /\ inbound.kind = "Array"
    /\ Len(inbound.data) = 2
    /\ inbound.data[1] # inbound.data[2]
    /\ connected
    /\ socket = from

\* A text message was received and the connection stays open.
C15_WitnessText ==
    /\ op = "message"
    /\ inbound.kind = "string"
    /\ connected
    /\ socket = from
    /\ sockets[socket].state = "open"

\* C16: when the socket opened by connect() reports an error before it
\* opens, the PendingConnect is rejected and cleared, `error` is the only
\* emission of the step, and the socket is closed and released.
C16_ErrorBeforeOpen ==
    [][(/\ op' = "error"
        /\ sockets[from'].by = "connect"
        /\ ~sockets[from'].opened) =>
            /\ pending # 0
            /\ promises[pending].own = from'
            /\ promises'[pending].rejector = 1
            /\ promises'[pending].resolver = 0
            /\ pending' = 0
            /\ Topics' = <<"error">>
            /\ socket = from'
            /\ socket' = 0
            /\ sockets'[from'].state = "closed"
            /\ ~sockets'[from'].listening
            /\ ~connected']_vars

C16_Witness ==
    /\ op = "error"
    /\ sockets[from].by = "connect"
    /\ ~sockets[from].opened
    /\ \E p \in DOMAIN promises :
            promises[p].own = from /\ promises[p].rejector = 1

\* A socket opened by connect() reports an error and no socket has ever
\* opened: the first attempts have all failed.
FirstAttemptFails ==
    /\ op' = "error"
    /\ sockets[from'].by = "connect"
    /\ \A t \in DOMAIN sockets : ~sockets[t].opened

\* C17 as claimed: when a first, never-opened connect attempt reports an
\* error the controller goes to Idle and the reconnect timer is not armed,
\* whatever the reconnect delay.
C17_NoReconnectAfterFailedFirst ==
    [][FirstAttemptFails =>
        /\ socket' = 0
        /\ pending' = 0
        /\ ~timeout'
        /\ timers' = 0]_vars

\* C17 as the code has it: when a first, never-opened connect attempt
\* reports an error the socket and the PendingConnect are released, and the
\* reconnect timer is armed exactly when the reconnect delay is > 0.
C17_ReconnectAfterFailedFirst ==
    [][FirstAttemptFails =>
        /\ socket' = 0
        /\ pending' = 0
        /\ timeout' = (reconnect > 0)
        /\ timers' = (IF reconnect > 0 THEN 1 ELSE 0)]_vars

\* The first attempt failed and the timer is armed.
C17_Witness ==
    /\ op = "error"
    /\ from = 1
    /\ sockets[1].by = "connect"
    /\ ~sockets[1].opened
    /\ configured > 0
    /\ timeout
    /\ socket = 0

\* C18: with a configured reconnect delay of 0 or less the timer is never
\* armed and no timer callback runs, so every socket is created by connect().
C18_NoTimerWhenDisabled ==
    configured <= 0 =>
        /\ ~timeout
        /\ timers = 0
        /\ op # "timer"
        /\ \A t \in DOMAIN sockets : sockets[t].by = "connect"

\* With a delay of 0 an opened socket closed, and no teardown was called.
C18_Witness ==
    /\ configured = 0
    /\ op = "close"
    /\ sockets[from].opened
    /\ ~disconnectCalled
    /\ ~destroyCalled
    /\ socket = 0

\* C19: only the held socket carries listeners, so a listener runs only for
\* a notification of the held socket and a notification of any other socket
\* changes nothing and emits nothing; and at most one close/error
\* notification of a socket runs the close/reconnect routine.
C19_NoStaleListeners ==
    /\ [](Listening \subseteq {socket})
    /\ [](\A t \in DOMAIN sockets : sockets[t].routines <= 1)
    /\ [][op' \in {"open", "message", "close", "error"} => from' = socket]_vars
    /\ [][op' = "stale" =>
            /\ from' # socket
            /\ UNCHANGED ctrl
            /\ emits' = <<>>]_vars

\* A socket replaced by a reconnect delivers a notification.
C19_Witness ==
    /\ op = "stale"
    /\ socket # 0
    /\ from < socket
    /\ sockets[socket].by = "timer"
    /\ sockets[from].routines = 1

\* C20: at most one reconnect timer is armed, an armed timer implies that no
\* socket is held, _open never throws, and at most one socket is not closed.
C20_TimerExcludesSocket ==
    /\ timers <= 1
    /\ timeout = (timers = 1)
    /\ timers > 0 => socket = 0
    /\ ~fault
    /\ Cardinality({t \in DOMAIN sockets : sockets[t].state # "closed"}) <= 1

\* connect() was called while the timer armed by a close was still armed.
C20_Witness ==
    /\ op = "connect"
    /\ result = "promise"
    /\ socket > 1
    /\ sockets[socket].by = "connect"
    /\ sockets[socket - 1].routines = 1
    /\ configured > 0
    /\ ~disconnectCalled
    /\ ~destroyCalled

====
